---- MODULE Spec2Model ----
(***************************************************************************)
(* Cancellable promises: the four drafts of AbortablePromise together with  *)
(* their Ble.sendRequest producer and the driver's abort call.              *)
(*                                                                          *)
(*   "plain"     src/unnamed/part_000   internal AbortController            *)
(*   "hook"      src/index.ts:1-117     onCancel hook registered by the     *)
(*                                      executor                            *)
(*   "signal"    src/index.ts:119-244   internal AbortController exposed    *)
(*                                      through the abortSignal getter      *)
(*   "external"  src/index.ts:246-378   AbortSignal supplied by the caller  *)
(*                                                                          *)
(* One step of the model is one run-to-completion job of the event loop:    *)
(* the synchronous sendRequest call, one abort call (listener dispatch is   *)
(* synchronous), the timer callback, the resumption of the async function   *)
(* after its await.                                                         *)
(***************************************************************************)
EXTENDS Naturals, Sequences, FiniteSets

VARIABLES variant, executor, pc, promise, abortReason, ctl, ext, onCancel,
          timer, opPc, hookCalls, effects, trace

vars == <<variant, executor, pc, promise, abortReason, ctl, ext, onCancel,
          timer, opPc, hookCalls, effects, trace>>

(* Number of abort calls the driver issues in one run. *)
MaxAborts == 2

Variants == {"plain", "hook", "signal", "external"}

(* The executor handed to the constructor: "ble" is the one Ble.sendRequest *)
(* of the same draft passes; "bare" starts the same operation but does not  *)
(* use the optional onCancel registration (the executor of the plain       *)
(* draft), so that abort() of the hook draft finds #onCancel unset.        *)
Executors(v) == IF v = "hook" THEN {"ble", "bare"} ELSE {"ble"}

(* Default of the parameter of abort(), and the fallback of the listener. *)
DefaultReason == "Promise was aborted."

(* Marks a call abort() without argument. *)
NoArg == "<no argument>"

Reasons == {"User initiated abort.", "Timeout."}

(* #abortReason before any assignment. *)
Undefined == "<undefined>"

(* Value of a parameter `reason: string = 'Promise was aborted.'`. *)
Param(r) == IF r = NoArg THEN DefaultReason ELSE r

Pending == [state |-> "pending", kind |-> "none", message |-> ""]

NoPromise == [state |-> "none", kind |-> "none", message |-> ""]

BleData == [state |-> "fulfilled", kind |-> "bleData", message |-> ""]

OperationErrorAsAbort == [state |-> "rejected", kind |-> "AbortError", message |-> ""]

OperationError == [state |-> "rejected", kind |-> "OPERATION_ERROR", message |-> ""]

ReferenceError == [state |-> "rejected", kind |-> "ReferenceError", message |-> ""]

AbortError(m) == [state |-> "rejected", kind |-> "AbortError", message |-> m]

(* A fresh AbortController's signal. *)
NewSignal == [aborted |-> FALSE, listeners |-> <<>>]

(* The resolve/reject pair the native Promise hands to its executor: the   *)
(* first call settles the promise, every later call is ignored.            *)
SettleOverwrite(p, v) == v

Settle(p, v) == IF p.state = "pending" THEN v ELSE p

(* The program state the synchronous code reads and writes. *)
Cur == [promise |-> promise, abortReason |-> abortReason, ctl |-> ctl,
        ext |-> ext, onCancel |-> onCancel, timer |-> timer,
        hookCalls |-> hookCalls, effects |-> <<>>]

(* clearTimeout(timerId): stops a timer that has not fired yet. *)
ClearTimeoutNoop(t) == t

ClearTimeout(t) == IF t = "armed" THEN "cleared" ELSE t

(* signal.addEventListener('abort', l): the listener is only stored; an    *)
(* abort event is dispatched once, when the signal becomes aborted.        *)
AddEventListener(sig, l) == [sig EXCEPT !.listeners = Append(@, l)]

RECURSIVE Dispatch(_, _)
RECURSIVE SignalAbort(_, _)
RECURSIVE RunListener(_, _)

(* The listener of the Promise executor:                                   *)
(*   reject(new AbortError(this.#abortReason ?? 'Promise was aborted.'))   *)
RejectListener(s) ==
    [s EXCEPT !.promise =
        Settle(@, AbortError(IF s.abortReason = Undefined
                             THEN DefaultReason ELSE s.abortReason)),
              !.effects = Append(@, "reject")]

(* The listener on the supplied signal: abort the internal controller,     *)
(* with the fixed reason, unless it is aborted already.                    *)
ForwardListenerSkip(s) == s

ForwardListener(s) ==
    IF ~s.ctl.aborted
    THEN SignalAbort("ctl", [s EXCEPT !.abortReason = DefaultReason])
    ELSE s

(* The producer's abort listener: clearTimeout(timerId) and a log line. *)
ClearTimerListener(s) ==
    [s EXCEPT !.timer = ClearTimeout(@), !.hookCalls = @ + 1,
              !.effects = Append(@, "clearTimeout")]

RunListener(l, s) ==
    CASE l = "reject" -> RejectListener(s)
      [] l = "forward" -> ForwardListener(s)
      [] l = "clearTimer" -> ClearTimerListener(s)

Dispatch(ls, s) ==
    IF ls = <<>> THEN s ELSE Dispatch(Tail(ls), RunListener(Head(ls), s))

(* AbortController.abort(): no effect on an aborted signal; otherwise the  *)
(* flag is set and the listeners run synchronously in registration order.  *)
SignalAbort(which, s) ==
    IF s[which].aborted
    THEN s
    ELSE Dispatch(s[which].listeners, [s EXCEPT ![which].aborted = TRUE])

(* The callback Ble.sendRequest hands to onCancel in the hook draft. *)
BleOnCancelForce(s) ==
    [s EXCEPT !.timer = ClearTimeout(@),
              !.hookCalls = @ + 1,
              !.promise = AbortError(DefaultReason),
              !.effects = @ \o <<"clearTimeout", "reject">>]

BleOnCancelNoReject(s) ==
    [s EXCEPT !.timer = ClearTimeout(@),
              !.hookCalls = @ + 1,
              !.effects = Append(@, "clearTimeout")]

BleOnCancel(s) ==
    [s EXCEPT !.timer = ClearTimeout(@),
              !.hookCalls = @ + 1,
              !.promise = Settle(@, AbortError(DefaultReason)),
              !.effects = @ \o <<"clearTimeout", "reject">>]

(* abort(reason) of the hook draft. *)
AbortHookKeep(s, reason) ==
    [(IF s.onCancel THEN BleOnCancel(s) ELSE s) EXCEPT !.abortReason = reason]

AbortHook(s, reason) ==
    [(IF s.onCancel THEN [BleOnCancel(s) EXCEPT !.onCancel = FALSE] ELSE s)
        EXCEPT !.abortReason = reason]

(* abort(reason) of the drafts with an internal AbortController. *)
AbortController(s, reason) ==
    IF ~s.ctl.aborted
    THEN SignalAbort("ctl", [s EXCEPT !.abortReason = reason])
    ELSE s

(* "copy the aborted status from the given signal" *)
CopyAbortedSkip(s) == s

CopyAbortedAlways(s) == SignalAbort("ctl", s)

CopyAborted(s) ==
    IF s.ext.aborted THEN SignalAbort("ctl", s) ELSE s

(* new AbortablePromise(signal, executor) of the external draft, up to the *)
(* call of the executor.                                                   *)
ConstructExternal(s) ==
    LET s1 == CopyAborted([s EXCEPT !.ctl = NewSignal])
        s2 == [s1 EXCEPT !.ext = AddEventListener(@, "forward")]
    IN  [s2 EXCEPT !.promise = Pending,
                   !.ctl = AddEventListener(@, "reject")]

(* new AbortablePromise(executor) of the plain and signal drafts, up to    *)
(* the call of the executor.                                               *)
ConstructInternal(s) ==
    [s EXCEPT !.promise = Pending,
              !.ctl = AddEventListener(NewSignal, "reject")]

(* Is a cleanup (timer-clearing) callback registered with the operation? *)
HookRegistered ==
    \/ onCancel
    \/ \E i \in 1..Len(ctl.listeners) : ctl.listeners[i] = "clearTimer"
    \/ \E i \in 1..Len(ext.listeners) : ext.listeners[i] = "clearTimer"

(* Record of a call, with what the caller saw just before it. *)
Event(ev, reason, out) ==
    [ev |-> ev, reason |-> reason, out |-> out,
     before |-> promise.state, hook |-> HookRegistered]

AbortCalls == Cardinality({i \in 1..Len(trace) : trace[i].ev = "abort"})

Update(s) ==
    /\ promise' = s.promise
    /\ abortReason' = s.abortReason
    /\ ctl' = s.ctl
    /\ ext' = s.ext
    /\ onCancel' = s.onCancel
    /\ timer' = s.timer
    /\ hookCalls' = s.hookCalls
    /\ effects' = s.effects

Init ==
    /\ variant \in Variants
    /\ executor \in Executors(variant)
    /\ pc = "start"
    /\ promise = NoPromise
    /\ abortReason = Undefined
    /\ ctl = NewSignal
    /\ ext = NewSignal
    /\ onCancel = FALSE
    /\ timer = "unset"
    /\ opPc = "idle"
    /\ hookCalls = 0
    /\ effects = <<>>
    /\ trace = <<>>

(* ble.sendRequest(...): constructs the operation; the executor starts the *)
(* async function, which arms the 3000 ms timer and suspends at its await. *)
SendRequestPlain ==
    /\ variant = "plain"
    /\ pc = "start"
    /\ Update([ConstructInternal(Cur) EXCEPT !.timer = "armed"])
    /\ opPc' = "awaiting"
    /\ pc' = "running"
    /\ trace' = Append(trace, Event("sendRequest", NoArg, "-"))
    /\ UNCHANGED <<variant, executor>>

SendRequestHook ==
    /\ variant = "hook"
    /\ pc = "start"
    /\ Update([Cur EXCEPT !.promise = Pending,
                          !.onCancel = (executor = "ble"),
                          !.timer = "armed"])
    /\ opPc' = "awaiting"
    /\ pc' = "running"
    /\ trace' = Append(trace, Event("sendRequest", NoArg, "-"))
    /\ UNCHANGED <<variant, executor>>

(* In the signal draft the executor reads abortablePromise.abortSignal     *)
(* while the constructor that initialises abortablePromise is still        *)
(* running: the read throws after operation() has armed the timer, and the *)
(* Promise constructor turns the throw into a rejection.  The producer's   *)
(* abort listener is never registered.                                     *)
SendRequestSignal ==
    /\ variant = "signal"
    /\ pc = "start"
    /\ LET s1 == [ConstructInternal(Cur) EXCEPT !.timer = "armed"]
       IN  Update([s1 EXCEPT !.promise = Settle(@, ReferenceError)])
    /\ opPc' = "awaiting"
    /\ pc' = "running"
    /\ trace' = trace \o <<Event("sendRequest", NoArg, "-"),
                           [Event("throw", NoArg, "ReferenceError")
                               EXCEPT !.before = "pending"]>>
    /\ UNCHANGED <<variant, executor>>

SendRequestExternal ==
    /\ variant = "external"
    /\ pc = "start"
    /\ LET s1 == [ConstructExternal(Cur) EXCEPT !.timer = "armed"]
       IN  Update([s1 EXCEPT !.ext = AddEventListener(@, "clearTimer")])
    /\ opPc' = "awaiting"
    /\ pc' = "running"
    /\ trace' = Append(trace, Event("sendRequest", NoArg, "-"))
    /\ UNCHANGED <<variant, executor>>

(* request.abort(reason) / request.abort() *)
Abort ==
    /\ variant \in {"plain", "hook", "signal"}
    /\ pc = "running"
    /\ AbortCalls < MaxAborts
    /\ \E r \in Reasons \cup {NoArg} :
          /\ Update(IF variant = "hook"
                    THEN AbortHook(Cur, Param(r))
                    ELSE AbortController(Cur, Param(r)))
          /\ trace' = Append(trace, Event("abort", r, "-"))
    /\ UNCHANGED <<variant, executor, pc, opPc>>

(* abortController.abort() on the controller handed to sendRequest; the    *)
(* caller owns it and may abort it before the request is sent.             *)
ControllerAbort ==
    /\ variant = "external"
    /\ AbortCalls < MaxAborts
    /\ Update(SignalAbort("ext", Cur))
    /\ trace' = Append(trace, Event("abort", NoArg, "-"))
    /\ UNCHANGED <<variant, executor, pc, opPc>>

(* The setTimeout callback: res({ data: 50, testType }). *)
TimerFire ==
    /\ timer = "armed"
    /\ timer' = "fired"
    /\ opPc' = IF opPc = "awaiting" THEN "resumable" ELSE opPc
    /\ trace' = Append(trace, Event("timer", NoArg, "-"))
    /\ effects' = <<>>
    /\ UNCHANGED <<variant, executor, pc, promise, abortReason, ctl, ext,
                   onCancel, hookCalls>>

(* The async function resumes after its await: resolve(bleData). *)
OperationResume ==
    /\ opPc = "resumable"
    /\ promise' = Settle(promise, BleData)
    /\ opPc' = "done"
    /\ trace' = Append(trace, Event("resolve", NoArg, "bleData"))
    /\ effects' = <<"resolve">>
    /\ UNCHANGED <<variant, executor, pc, abortReason, ctl, ext, onCancel,
                   timer, hookCalls>>

(* The awaited hardware call fails: the catch block rejects with           *)
(* { errorType: 'OPERATION_ERROR', description: error }.                   *)
OperationCatch ==
    /\ opPc = "awaiting"
    /\ promise' = Settle(promise, OperationError)
    /\ opPc' = "done"
    /\ trace' = Append(trace, Event("reject", NoArg, "OPERATION_ERROR"))
    /\ effects' = <<"reject">>
    /\ UNCHANGED <<variant, executor, pc, abortReason, ctl, ext, onCancel,
                   timer, hookCalls>>

Next ==
    \/ SendRequestPlain
    \/ SendRequestHook
    \/ SendRequestSignal
    \/ SendRequestExternal
    \/ Abort
    \/ ControllerAbort
    \/ TimerFire
    \/ OperationResume
    \/ OperationCatch

Spec == Init /\ [][Next]_vars

(* The event loop runs a due timer callback and a resumable async function. *)
LiveSpec == Spec /\ WF_vars(TimerFire) /\ WF_vars(OperationResume)

(***************************************************************************)
(* Reading the record of calls.                                            *)
(***************************************************************************)
AbortIdx == {i \in 1..Len(trace) : trace[i].ev = "abort"}

ProducerIdx == {i \in 1..Len(trace) : trace[i].ev \in {"resolve", "reject", "throw"}}

First(S) == CHOOSE i \in S : \A j \in S : i <= j

(* The first abort call of the run found the operation Pending. *)
CancelledWhilePending ==
    AbortIdx # {} /\ trace[First(AbortIdx)].before = "pending"

(* The producer's first resolve/reject came before any abort call. *)
ProducerFirst ==
    /\ ProducerIdx # {}
    /\ \A i \in AbortIdx : First(ProducerIdx) < i

(* What the producer's call asked the operation to settle with. *)
Outcome(out) ==
    CASE out = "bleData" -> BleData
      [] out = "OPERATION_ERROR" -> OperationError
      [] out = "ReferenceError" -> ReferenceError

Settled == promise.state \in {"fulfilled", "rejected"}

Aborted == promise.state = "rejected" /\ promise.kind = "AbortError"

(* The step taken is an abort call. *)
AbortStep ==
    /\ Len(trace') = Len(trace) + 1
    /\ trace'[Len(trace')].ev = "abort"

(* C1: once the operation is Fulfilled or Rejected, no later resolve,      *)
(* reject or abort changes its state or its value/error, in any draft.     *)
C1_SettledOnce == [][Settled => promise' = promise]_vars

(* C1 witness: a settled operation that received a further abort call and  *)
(* a further producer call.                                                *)
C1_Witness ==
    /\ Settled
    /\ \E i \in AbortIdx : trace[i].before \in {"fulfilled", "rejected"}
    /\ \E i \in ProducerIdx : trace[i].before \in {"fulfilled", "rejected"}

(* C2 (as claimed): if the first cancellation finds the operation Pending, *)
(* the operation is Rejected with an AbortError from then on, whatever the *)
(* producer does afterwards.                                               *)
C2_CancelWins == CancelledWhilePending => Aborted

(* C3 (as claimed): an operation settled by cancellation carries the       *)
(* reason passed to the abort call that caused it, and the default message *)
(* only when no reason was given.                                          *)
C3_ReasonCarried ==
    (CancelledWhilePending /\ Aborted)
        => promise.message = Param(trace[First(AbortIdx)].reason)

C6_NoHookAfterCompletion == ProducerFirst => hookCalls = 0

(* C7 (as claimed): an abort call that follows an earlier abort call       *)
(* leaves the stored reason and the cancelled flags as they were and fires *)
(* no listener or hook again.                                              *)
C7_SecondAbortNoOp ==
    [][(AbortIdx # {} /\ pc = "running" /\ AbortStep)
          => /\ abortReason' = abortReason
             /\ ctl'.aborted = ctl.aborted
             /\ ext'.aborted = ext.aborted
             /\ hookCalls' = hookCalls
             /\ promise' = promise]_vars

(* C8: with a supplied signal, aborting the live parent aborts the         *)
(* operation's internal controller in the same call, and the parent's      *)
(* cancelled flag changes in no step other than an abort of the parent.    *)
C8_OneDirectional ==
    [][variant = "external"
          => /\ (pc = "running" /\ ~ext.aborted /\ ext'.aborted) => ctl'.aborted
             /\ (ext'.aborted # ext.aborted) => AbortStep]_vars

(* C8 witness: the parent was aborted while the operation was Pending and  *)
(* the internal controller is aborted.                                     *)
C8_Witness ==
    /\ variant = "external"
    /\ CancelledWhilePending
    /\ ext.aborted
    /\ ctl.aborted

(* C9: no state has an operation whose supplied signal is aborted and      *)
(* whose internal controller is not; in particular the internal controller *)
(* is aborted from construction when the signal was aborted before.        *)
C9_ChildStartsCancelled ==
    (variant = "external" /\ pc = "running" /\ ext.aborted) => ctl.aborted

(* C9 witness: the signal was aborted before the operation was built. *)
C9_Witness ==
    /\ variant = "external"
    /\ pc = "running"
    /\ trace[1].ev = "abort"
    /\ ctl.aborted

(* C10 (as claimed): an operation constructed with an already aborted      *)
(* signal has its cancellation listener run at registration and is         *)
(* Rejected with an AbortError.                                            *)
C10_NoMissedNotification ==
    (variant = "external" /\ pc = "running" /\ trace[1].ev = "abort")
        => Aborted

(* Cancellation has been requested of the operation's own token: its       *)
(* internal controller, or in the hook draft the reason stored by abort.   *)
TokenCancelled ==
    IF variant = "hook" THEN abortReason # Undefined ELSE ctl.aborted

(* A callback that rejects the operation on cancellation is registered. *)
RejectingListener ==
    \/ onCancel
    \/ \E i \in 1..Len(ctl.listeners) : ctl.listeners[i] = "reject"

(* The first abort call ran the cleanup while the timer had not fired. *)
CleanupBeforeFire ==
    /\ AbortIdx # {}
    /\ trace[First(AbortIdx)].hook
    /\ \A i \in 1..First(AbortIdx) : trace[i].ev # "timer"

(* C11 (as claimed): an abort call that finds the operation Pending returns *)
(* with the operation already rejected with an AbortError.                 *)
C11_SynchronousCancel ==
    [][(AbortStep /\ promise.state = "pending")
          => (promise'.state = "rejected" /\ promise'.kind = "AbortError")]_vars

(* C12 (as claimed): in every draft, when the consumer never cancels and   *)
(* the timer fired and the producer resolved, the operation is Fulfilled   *)
(* with the producer's payload.                                            *)
C12_FulfilsWithoutCancel ==
    (AbortIdx = {} /\ \E i \in ProducerIdx : trace[i].ev = "resolve")
        => promise = BleData

(* C13 (as claimed): when the underlying computation fails before any      *)
(* cancellation, the operation is Rejected with the OPERATION_ERROR        *)
(* wrapper, never with an AbortError.                                      *)
C13_OperationFailed ==
    (\E i \in ProducerIdx :
        trace[i].ev = "reject" /\ \A j \in AbortIdx : i < j)
        => (promise.state = "rejected" /\ promise.kind = "OPERATION_ERROR")

(* C14 (as claimed): an abort call that finds the operation Pending with   *)
(* no cleanup hook registered leaves it Rejected with an AbortError, and   *)
(* later producer calls do not change that.                                *)
C14_NoHookNeeded ==
    (\E i \in AbortIdx : trace[i].before = "pending" /\ ~trace[i].hook)
        => Aborted

(* C15 (as claimed): no state has the operation's token cancelled, the     *)
(* operation Pending and no rejecting listener registered.                 *)
C15_ListenerFirst ==
    ~(promise.state = "pending" /\ TokenCancelled /\ ~RejectingListener)

(* C16 (as claimed): within one cancel call the timer is never cleared     *)
(* after the operation's reject has been called.                           *)
C16_CleanupBeforeReject ==
    \A i, j \in 1..Len(effects) :
        (effects[i] = "reject" /\ effects[j] = "clearTimeout") => j < i

(* C17: only an abort call changes a token: every other step leaves the    *)
(* supplied signal's flag and the stored reason unchanged, construction    *)
(* gives the internal controller the flag of the supplied signal and no    *)
(* later step but an abort changes it; without an abort call no token is   *)
(* ever cancelled.                                                         *)
C17_OnlyCancelMutates ==
    /\ [][~AbortStep
            => /\ ext'.aborted = ext.aborted
               /\ abortReason' = abortReason
               /\ ctl'.aborted = IF pc = "start" /\ pc' = "running"
                                 THEN ext.aborted ELSE ctl.aborted]_vars
    /\ [](AbortIdx = {}
            => (~ctl.aborted /\ ~ext.aborted /\ abortReason = Undefined))

(* C17 witness: an operation built on a supplied signal fulfilled          *)
(* naturally, and neither token is cancelled.                              *)
C17_Witness ==
    /\ variant = "external"
    /\ promise = BleData
    /\ AbortIdx = {}
    /\ ~ctl.aborted
    /\ ~ext.aborted

(* C18: an operation is Rejected with an AbortError only after an abort    *)
(* call.                                                                   *)
C18_NoSpuriousAbort == Aborted => AbortIdx # {}

(* C18 witness: the producer failed and no abort call was made. *)
C18_Witness ==
    /\ promise.state = "rejected"
    /\ AbortIdx = {}
    /\ \E i \in ProducerIdx : trace[i].ev = "reject"

(* C19: in the hook and external drafts, once the first abort call has run *)
(* the cleanup before the timer fired, the timer callback never runs and   *)
(* the producer never calls resolve.                                       *)
C19_NoLeakedTimer ==
    (variant \in {"hook", "external"} /\ CleanupBeforeFire)
        => \A i \in 1..Len(trace) : trace[i].ev \notin {"timer", "resolve"}

(* C19 witness: the cleanup cleared an armed timer and a later abort call  *)
(* followed.                                                               *)
C19_Witness ==
    /\ variant \in {"hook", "external"}
    /\ CleanupBeforeFire
    /\ timer = "cleared"
    /\ Cardinality(AbortIdx) >= 2

(* C20: every operation returned by sendRequest eventually settles,        *)
(* whenever abort is called or not, provided due timers and resumptions    *)
(* run.                                                                    *)
C20_EventuallySettles == (pc = "running") ~> Settled

(* C20 witness: an operation whose signal was aborted before construction  *)
(* settled by natural completion.                                          *)
C20_Witness ==
    /\ pc = "running"
    /\ trace[1].ev = "abort"
    /\ Settled

====
